---- MODULE Spec2Model ----
(***************************************************************************)
(* Lifecycle of the redoubt Server (src/src/index.ts): listen / close,     *)
(* the list of created servers (_server), the per-server connection        *)
(* registry installed by enableDestroy, and the lifecycle events.          *)
(*                                                                         *)
(* Execution model: one JavaScript event loop.  The synchronous part of a  *)
(* call together with the nextTick / promise micro-tasks it triggers is    *)
(* one action; every callback delivered by the network layer (bind result, *)
(* accepted connection, socket close) is an action of its own.             *)
(***************************************************************************)
EXTENDS Integers, Sequences, FiniteSets, TLC

\* ------------------------------------------------------------------ bounds
MaxListenCalls == 2
MaxCloseCalls == 2
MaxSockets == 2
MaxServers == 3

\* ------------------------------------------------------------ value spaces
NULL == "null"
SecurePorts == {"443"}
PlainPorts == {"80", NULL}
Keys == {"peer:1", "peer:2"}
SslModes == {"none", "letsEncrypt", "manual"}

VARIABLES
    options,       \* the Partial<IOptions> handed to the constructor
    thrown,        \* message of the error the constructor threw, "" if none
    _options,      \* Server._options : IOptions, fixed at construction
    _server,       \* Server._server : sequence of server ids
    _portHttp,     \* Server._portHttp
    _portHttps,    \* Server._portHttps
    servers,       \* every http/https server object ever created, by id
    connections,   \* connections[s][key] : socket id registered under key, 0 if none
    sockets,       \* every accepted net.Socket, by id
    listenCalls,   \* every listen() call: its two promises, its outcome
    closeCalls,    \* every close() call: its promises, its outcome
    events,        \* log: emitted events, bind attempts and call starts, in order
    tlsReject      \* process.env.NODE_TLS_REJECT_UNAUTHORIZED ("unset" or "0")

vars == <<options, thrown, _options, _server, _portHttp, _portHttps, servers, connections,
          sockets, listenCalls, closeCalls, events, tlsReject>>

\* ----------------------------------------------------------------- helpers
Range(f) == {f[i] : i \in DOMAIN f}

Ev(type, call, srv) == [type |-> type, call |-> call, srv |-> srv]

\* the connections net.Server still counts for server s (_connections): a
\* socket is counted from its accept until it is destroyed, by destroy() or
\* after the peer ended it; its 'close' event comes later
Live(socks, s) ==
    {k \in DOMAIN socks : socks[k].server = s /\ socks[k].state = "open"}

\* ports held by a bound server (greenlock binds the plaintext port as well)
PortsOf(srv) == {srv.port, srv.plain} \ {NULL}

NoKey == [key \in Keys |-> 0]

\* ------------------------------------------------------------- constructor
\* a field of a Partial<IOptions>: <<>> when undefined, <<v>> when given
Opt(values) == {<<>>} \cup {<<v>> : v \in values}

\* interface IOptions, lines 220-236.  The ssl field is a mode name or, for
\* the manual mode, the object {key, cert, allowUnsigned}; it is written as
\* one record here, and createDefaultOptions stores the mode under ssl and
\* the members of the object beside it.  "" stands for key or certificate
\* bytes that were not supplied
SslValues ==
    {[mode |-> m, key |-> "", cert |-> "", allowUnsigned |-> FALSE] :
        m \in {"none", "letsEncrypt"}}
    \cup [mode : {"manual"}, key : {"", "pem"}, cert : {"", "pem"},
          allowUnsigned : BOOLEAN]

RequiredFields == {"name", "domains", "cookieSecret", "webmasterMail"}

\* every argument the constructor is tried on
PartialOptions ==
    [name : Opt({"given"}), domains : Opt({"given"}),
     cookieSecret : Opt({"given"}), webmasterMail : Opt({"given"}),
     debug : Opt({"custom"}), isDevelopment : Opt(BOOLEAN),
     agreeGreenlockTos : Opt(BOOLEAN), staticFiles : Opt({"given"}),
     maxPayloadSize : Opt({1}), ssl : Opt(SslValues),
     letsEncryptCertDirectory : Opt({"custom"})]

\* variant: the last required field is not checked
ThrowsUncheckedMail(o) ==
    IF o.name = <<>> THEN "name is required."
    ELSE IF o.domains = <<>> THEN "domains is required."
    ELSE IF o.cookieSecret = <<>> THEN "cookieSecret is required."
    ELSE ""

\* lines 243-246: the error createDefaultOptions throws on o, "" if none
Throws(o) ==
    IF o.name = <<>> THEN "name is required."
    ELSE IF o.domains = <<>> THEN "domains is required."
    ELSE IF o.cookieSecret = <<>> THEN "cookieSecret is required."
    ELSE IF o.webmasterMail = <<>> THEN "webmasterMail is required."
    ELSE ""

\* x === undefined ? d : x
OrDefault(x, d) == IF x = <<>> THEN d ELSE x[1]

\* lines 248-258: the IOptions createDefaultOptions returns on o
createDefaultOptions(o) ==
    LET ssl == OrDefault(o.ssl, [mode |-> "letsEncrypt", key |-> "", cert |-> "",
                                 allowUnsigned |-> FALSE])
    IN  [debug |-> OrDefault(o.debug, "defaultDebug"),
         isDevelopment |-> OrDefault(o.isDevelopment, FALSE),
         agreeGreenlockTos |-> OrDefault(o.agreeGreenlockTos, FALSE),
         staticFiles |-> OrDefault(o.staticFiles, NULL),
         maxPayloadSize |-> OrDefault(o.maxPayloadSize, 100 * 1024),
         ssl |-> ssl.mode, key |-> ssl.key, cert |-> ssl.cert,
         allowUnsigned |-> ssl.allowUnsigned,
         letsEncryptCertDirectory |-> OrDefault(o.letsEncryptCertDirectory, "./.certs/"),
         name |-> OrDefault(o.name, "undefined"),
         webmasterMail |-> OrDefault(o.webmasterMail, "undefined"),
         domains |-> OrDefault(o.domains, "undefined"),
         cookieSecret |-> OrDefault(o.cookieSecret, "undefined")]

\* an argument with the four required fields and nothing else
RequiredOnly ==
    [name |-> <<"given">>, domains |-> <<"given">>, cookieSecret |-> <<"given">>,
     webmasterMail |-> <<"given">>, debug |-> <<>>, isDevelopment |-> <<>>,
     agreeGreenlockTos |-> <<>>, staticFiles |-> <<>>, maxPayloadSize |-> <<>>,
     ssl |-> <<>>, letsEncryptCertDirectory |-> <<>>]

\* the arguments that differ from RequiredOnly in what the lifecycle reads:
\* the ssl mode with its members, isDevelopment and agreeGreenlockTos
AllOptions ==
    {[RequiredOnly EXCEPT !.ssl = <<s>>, !.isDevelopment = <<dev>>,
                          !.agreeGreenlockTos = <<tos>>] :
        s \in SslValues, dev \in BOOLEAN, tos \in BOOLEAN}

\* the three ssl modes with everything the mode asks for, production settings
ModeOptions ==
    {o \in AllOptions :
        /\ ~o.isDevelopment[1] /\ ~o.ssl[1].allowUnsigned
        /\ o.agreeGreenlockTos[1] = (o.ssl[1].mode = "letsEncrypt")
        /\ o.ssl[1].mode = "manual" => o.ssl[1].key = "pem" /\ o.ssl[1].cert = "pem"}

\* this._options before the constructor has assigned it
Unassigned == [unassigned |-> TRUE]

\* lines 48-51: the field initialisers
Fields ==
    /\ _server = <<>>
    /\ _portHttp = NULL
    /\ _portHttps = NULL
    /\ servers = <<>>
    /\ connections = <<>>
    /\ sockets = <<>>
    /\ listenCalls = <<>>
    /\ closeCalls = <<>>
    /\ events = <<>>

\* the state after new Server(options), for options in args and the
\* process environment variable in flags
Constructed(args, flags) ==
    /\ options \in args
    /\ Throws(options) = ""
    /\ thrown = ""
    /\ _options = createDefaultOptions(options)
    /\ Fields
    /\ tlsReject \in flags

Init == Constructed(ModeOptions, {"unset"})

\* new Server(options) on any argument: the state in which the constructor
\* body is entered, and the constructor, lines 39-45
InitNew ==
    /\ options \in PartialOptions
    /\ thrown = ""
    /\ _options = Unassigned
    /\ Fields
    /\ tlsReject = "unset"

New ==
    /\ _options = Unassigned
    /\ thrown = ""
    /\ IF Throws(options) # ""
       THEN thrown' = Throws(options) /\ _options' = _options
       ELSE thrown' = thrown /\ _options' = createDefaultOptions(options)
    /\ UNCHANGED <<options, _server, _portHttp, _portHttps, servers, connections,
                   sockets, listenCalls, closeCalls, events, tlsReject>>

NextNew == New

SpecNew == InitNew /\ [][NextNew]_vars

\* ---------------------------------------------------------- promise helpers
\* variant: a completion counter that never fires for an empty list
PromiseAllNonEmpty(ps) ==
    IF \E i \in DOMAIN ps : ps[i] = "rejected" THEN "rejected"
    ELSE IF ps # <<>> /\ \A i \in DOMAIN ps : ps[i] = "resolved" THEN "resolved"
    ELSE "pending"

\* Promise.all over promise states: rejects with the first rejection, resolves
\* once every promise has resolved, is pending otherwise
PromiseAll(ps) ==
    IF \E i \in DOMAIN ps : ps[i] = "rejected" THEN "rejected"
    ELSE IF \A i \in DOMAIN ps : ps[i] = "resolved" THEN "resolved"
    ELSE "pending"

\* ------------------------------------------------------------------ listen
\* line 178: is the redirecting express server created?
NeedsFallback(ssl, http) ==
    http # NULL /\ ssl # "letsEncrypt" /\ ssl # "none"

\* variant: the check of line 198 is missing
StartsMainAlways(ssl, http) == TRUE

\* lines 189-210: does this call create the main server?
StartsMain(ssl, http) ==
    ~(ssl = "none" /\ http = NULL)

\* variant: none mode listens on the HTTPS port
MainServerOnHttps(c, ssl, https, http) ==
    [call |-> c, kind |-> "main", port |-> https,
     plain |-> IF ssl = "letsEncrypt" THEN http ELSE NULL,
     phase |-> "binding", bind |-> "pending"]

\* the port(s) handed to the main server's listen()
MainServer(c, ssl, https, http) ==
    [call |-> c, kind |-> "main",
     port |-> IF ssl = "none" THEN http ELSE https,
     plain |-> IF ssl = "letsEncrypt" THEN http ELSE NULL,
     phase |-> "binding", bind |-> "pending"]

FallbackServer(c, http) ==
    [call |-> c, kind |-> "fallback", port |-> http, plain |-> NULL,
     phase |-> "binding", bind |-> "pending"]

\* the requests a client may send to a redirecting server
Methods == {"GET", "HEAD", "POST"}
Hosts == {"example.org"}
Urls == {"/a?b=1"}

\* line 180: the answer of the redirecting server to a request, computed
\* when the request arrives.  The only route is get("*"), which express also
\* uses for HEAD; any other method falls through to express's 404.  The
\* location is the concatenation of its five parts, written as their
\* sequence; a null port concatenates as "null"
Respond(method, host, url) ==
    IF method \in {"GET", "HEAD"}
    THEN [status |-> 302, location |-> <<"https://", host, ":", _portHttps, url>>]
    ELSE [status |-> 404, location |-> <<>>]

\* variant: allowUnsigned is not looked at
DisablesTlsVerificationDevOnly(o) ==
    o.ssl \in {"letsEncrypt", "manual"} /\ o.isDevelopment

\* lines 190-192, 204-206
DisablesTlsVerification(o) ==
    \/ o.ssl = "letsEncrypt" /\ o.isDevelopment
    \/ o.ssl = "manual" /\ (o.allowUnsigned \/ o.isDevelopment)

\* the servers startListening creates, in creation order (fallback first)
CreatedServers(c, ssl, https, http) ==
    (IF NeedsFallback(ssl, http) THEN <<FallbackServer(c, http)>> ELSE <<>>)
    \o (IF StartsMain(ssl, http) THEN <<MainServer(c, ssl, https, http)>> ELSE <<>>)

\* variant: 'beforeListen' is emitted after the servers were started
StartLogLate(c, first, n) ==
    [i \in 1..n |-> Ev("bind", c, first + i - 1)] \o <<Ev("beforeListen", c, 0)>>

\* what startListening writes to the log before it awaits: the event and the
\* bind attempts (first is the id of the first server created)
StartLog(c, first, n) ==
    <<Ev("beforeListen", c, 0)>> \o [i \in 1..n |-> Ev("bind", c, first + i - 1)]

\* variant: this._server is assigned instead of pushed to
PushCreatedReplacing(list, ids) ==
    IF ids = <<>> THEN list ELSE <<ids[Len(ids)]>>

\* lines 181, 194, 201, 208: this._server.push(enableDestroy(...listen(...)))
\* runs inside the promise executor, i.e. when the server is created
PushCreated(list, ids) == list \o ids

\* listen(https, http) followed by the synchronous part of startListening
Listen(https, http) ==
    LET c == Len(listenCalls) + 1
        ssl == _options.ssl
        new == CreatedServers(c, ssl, https, http)
        first == Len(servers) + 1
        ids == [i \in 1..Len(new) |-> first + i - 1]
        main == IF StartsMain(ssl, http) THEN "pending" ELSE "rejected"
        fallback == IF NeedsFallback(ssl, http) THEN "pending" ELSE "resolved"
        all == PromiseAll(<<main, fallback>>)
    IN  /\ Len(listenCalls) < MaxListenCalls
        /\ Len(servers) + Len(new) <= MaxServers
        /\ _portHttp' = http
        /\ _portHttps' = https
        /\ events' = events \o StartLog(c, first, Len(new))
        /\ servers' = servers \o new
        /\ connections' = connections \o [i \in 1..Len(new) |-> NoKey]
        /\ _server' = PushCreated(_server, ids)
        /\ tlsReject' = IF DisablesTlsVerification(_options) THEN "0" ELSE tlsReject
        /\ listenCalls' = Append(listenCalls,
              [https |-> https, http |-> http, main |-> main, fallback |-> fallback,
               status |-> all, result |-> <<>>,
               error |-> IF main = "rejected" THEN "config" ELSE "none",
               tlsBefore |-> tlsReject])
        /\ UNCHANGED <<options, thrown, _options, sockets, closeCalls>>

\* ------------------------------------------------------------ bind results
\* lines 212-216: the state of one listen call after one of its promises settled
SettledListen(lc, kind, outcome) ==
    LET lc1 == [lc EXCEPT ![kind] = outcome]
        all == PromiseAll(<<lc1.main, lc1.fallback>>)
    IN  IF lc.status # "pending" THEN lc1
        ELSE IF all = "resolved"
             THEN [lc1 EXCEPT !.status = "resolved", !.result = _server]
        ELSE IF all = "rejected"
             THEN [lc1 EXCEPT !.status = "rejected", !.error = "bind"]
        ELSE lc1

\* variant: 'listen' is emitted when Promise.all settles either way
ListenLogAlways(before, after, c) ==
    IF before.status = "pending" /\ after.status # "pending"
    THEN <<Ev("listen", c, 0)>> ELSE <<>>

\* line 214: the 'listen' event is emitted by the then-callback of Promise.all
ListenLog(before, after, c) ==
    IF before.status = "pending" /\ after.status = "resolved"
    THEN <<Ev("listen", c, 0)>> ELSE <<>>

PortFree(s) ==
    \A o \in DOMAIN servers :
        (o # s /\ servers[o].phase = "listening")
            => PortsOf(servers[o]) \cap PortsOf(servers[s]) = {}

\* the listen callback of server s is invoked without an error
BindSucceeds(s) ==
    LET c == servers[s].call
        lc == SettledListen(listenCalls[c], servers[s].kind, "resolved")
    IN  /\ servers[s].phase = "binding"
        /\ PortFree(s)
        /\ servers' = [servers EXCEPT ![s].phase = "listening", ![s].bind = "ok"]
        /\ listenCalls' = [listenCalls EXCEPT ![c] = lc]
        /\ events' = events \o ListenLog(listenCalls[c], lc, c)
        /\ UNCHANGED <<options, thrown, _options, _server, _portHttp, _portHttps, connections,
                       sockets, closeCalls, tlsReject>>

\* variant: a failed bind rolls back the listeners of the same call
BindFailedRollback(s) ==
    [o \in DOMAIN servers |->
        IF o = s THEN [servers[o] EXCEPT !.phase = "failed", !.bind = "failed"]
        ELSE IF servers[o].call = servers[s].call /\ servers[o].phase = "listening"
        THEN [servers[o] EXCEPT !.phase = "closed"]
        ELSE servers[o]]

\* lines 181, 193, 199, 207: the servers once the listen callback of server s
\* got an error; the callback rejects its promise and touches nothing else
BindFailed(s) ==
    [servers EXCEPT ![s].phase = "failed", ![s].bind = "failed"]

\* the listen callback of server s is invoked with an error
BindFails(s) ==
    LET c == servers[s].call
        lc == SettledListen(listenCalls[c], servers[s].kind, "rejected")
    IN  /\ servers[s].phase = "binding"
        /\ servers' = BindFailed(s)
        /\ listenCalls' = [listenCalls EXCEPT ![c] = lc]
        /\ events' = events \o ListenLog(listenCalls[c], lc, c)
        /\ UNCHANGED <<options, thrown, _options, _server, _portHttp, _portHttps, connections,
                       sockets, closeCalls, tlsReject>>

\* ------------------------------------------------------------- connections
\* lines 19-25: server s accepts a connection from the peer identified by key
\* (remote address and port); no open connection of s has that key, one whose
\* 'close' event is still pending may
Accept(s, key) ==
    LET k == Len(sockets) + 1
    IN  /\ Len(sockets) < MaxSockets
        /\ servers[s].phase = "listening"
        /\ \A o \in DOMAIN sockets :
              (sockets[o].server = s /\ sockets[o].key = key)
                  => sockets[o].state # "open"
        /\ sockets' = Append(sockets,
              [server |-> s, key |-> key, state |-> "open", destroyCalls |-> 0,
               ended |-> FALSE])
        /\ connections' = [connections EXCEPT ![s][key] = k]
        /\ UNCHANGED <<options, thrown, _options, _server, _portHttp, _portHttps, servers,
                       listenCalls, closeCalls, events, tlsReject>>

\* the state of one close call after the promise of handle s settled
SettledClose(cc, s, outcome) ==
    LET ps == [i \in DOMAIN cc.promises |->
                  IF cc.handles[i] = s /\ cc.promises[i] = "pending"
                  THEN outcome ELSE cc.promises[i]]
        all == PromiseAll(ps)
    IN  IF cc.status # "pending" THEN [cc EXCEPT !.promises = ps]
        ELSE [cc EXCEPT !.promises = ps, !.status = all,
                        !.result = IF all = "resolved" THEN cc.values ELSE <<>>]

\* the peer or the application ends socket k and the socket is destroyed; its
\* 'close' event is still to come.  net.Server drops the connection from its
\* count and, when it is closing and now drained, emits its own 'close',
\* which invokes the callback handed to server.close
SocketEnd(k) ==
    LET s == sockets[k].server
        socks == [sockets EXCEPT ![k].state = "closing", ![k].ended = TRUE]
        drained == servers[s].phase = "closing" /\ Live(socks, s) = {}
    IN  /\ sockets[k].state = "open"
        /\ sockets' = socks
        /\ servers' = IF drained THEN [servers EXCEPT ![s].phase = "closed"] ELSE servers
        /\ closeCalls' = IF drained
                         THEN [d \in DOMAIN closeCalls |->
                                  SettledClose(closeCalls[d], s, "resolved")]
                         ELSE closeCalls
        /\ UNCHANGED <<options, thrown, _options, _server, _portHttp, _portHttps, connections,
                       listenCalls, events, tlsReject>>

\* variant: the observer forgets to delete
ObserverDeleteNothing(reg, key) == reg

\* lines 22-24: the close observer of a connection deletes connections[key]
ObserverDelete(reg, key) == [reg EXCEPT ![key] = 0]

\* the 'close' event of socket k: the observer installed at line 22 runs
SocketCloseEvent(k) ==
    LET s == sockets[k].server
    IN  /\ sockets[k].state = "closing"
        /\ sockets' = [sockets EXCEPT ![k].state = "closed"]
        /\ connections' = [connections EXCEPT ![s] = ObserverDelete(@, sockets[k].key)]
        /\ UNCHANGED <<options, thrown, _options, _server, _portHttp, _portHttps, servers,
                       listenCalls, closeCalls, events, tlsReject>>

\* ------------------------------------------------------------------- close
\* lines 27-33: the sockets server.destroy calls destroy() on: every value of
\* the registry of that server
Registered(s) == {connections[s][key] : key \in Keys} \ {0}

\* line 81: does close(now) take the destroy branch?
UsesDestroy(now) == now

\* sockets after close(now) ran over the handles
DestroyedSockets(now, handles) ==
    LET hit == IF UsesDestroy(now)
               THEN UNION {Registered(handles[i]) : i \in DOMAIN handles}
               ELSE {}
    IN  [k \in DOMAIN sockets |->
            IF k \in hit
            THEN [sockets[k] EXCEPT
                     !.destroyCalls = @ + 1,
                     !.state = IF @ = "open" THEN "closing" ELSE @]
            ELSE sockets[k]]

\* server.close(cb) on server s, followed for a forced close by the sweep
\* that leaves the sockets socks: how the promise wrapping it stands once
\* the current tick is over.  early decides, for a server that is still
\* binding, whether its handle exists already (the close succeeds and the
\* listen callback never fires) or not (the callback gets "not running",
\* and the bind goes on)
ClosePromise(s, early, socks) ==
    CASE servers[s].phase = "listening" ->
            IF Live(socks, s) = {} THEN "resolved" ELSE "pending"
      [] servers[s].phase = "binding" ->
            IF early = "handle" THEN "resolved" ELSE "rejected"
      [] OTHER -> "rejected"

ClosedPhase(s, early, socks) ==
    CASE servers[s].phase = "listening" ->
            IF Live(socks, s) = {} THEN "closed" ELSE "closing"
      [] servers[s].phase = "binding" ->
            IF early = "handle" THEN "closed" ELSE "binding"
      [] OTHER -> servers[s].phase

\* variant: the callbacks share the loop variable
CloseValueLast(handles, i) == handles[Len(handles)]

\* line 80: the value the promise of the i-th handle resolves with
CloseValue(handles, i) == handles[i]

\* variant: the list is not reset
DrainedNever(list) == list

\* line 88
Drained(list) == <<>>

\* the sockets that are open on the handles (bookkeeping for the properties)
OpenOn(handles) ==
    {k \in DOMAIN sockets : sockets[k].state = "open" /\ sockets[k].server \in Range(handles)}

EarlyChoices(handles) ==
    {e \in [DOMAIN handles -> {"handle", "noHandle"}] :
        \A i \in DOMAIN handles :
            servers[handles[i]].phase # "binding" => e[i] = "handle"}

\* close(now): the loop over this._server, the reset of the list and the
\* settling of Promise.all as far as it happens without a further callback
Close(now, early) ==
    LET d == Len(closeCalls) + 1
        handles == _server
        socks == DestroyedSockets(now, handles)
        ps == [i \in DOMAIN handles |-> ClosePromise(handles[i], early[i], socks)]
        all == PromiseAll(ps)
        values == [i \in DOMAIN handles |-> CloseValue(handles, i)]
    IN  /\ Len(closeCalls) < MaxCloseCalls
        /\ _portHttp' = NULL
        /\ _portHttps' = NULL
        /\ sockets' = socks
        /\ servers' = [s \in DOMAIN servers |->
              IF \E i \in DOMAIN handles : handles[i] = s
              THEN [servers[s] EXCEPT !.phase =
                      ClosedPhase(s, early[CHOOSE i \in DOMAIN handles : handles[i] = s], socks)]
              ELSE servers[s]]
        /\ _server' = Drained(_server)
        /\ closeCalls' = Append(closeCalls,
              [now |-> now, handles |-> handles, promises |-> ps, values |-> values,
               status |-> all,
               result |-> IF all = "resolved" THEN values ELSE <<>>,
               phases |-> [i \in DOMAIN handles |-> servers[handles[i]].phase],
               openAtCall |-> OpenOn(handles)])
        /\ events' = Append(events, Ev("close", d, 0))
        /\ UNCHANGED <<options, thrown, _options, connections, listenCalls, tlsReject>>

\* ------------------------------------------------------------- next, spec
Next ==
    \/ \E https \in SecurePorts, http \in PlainPorts : Listen(https, http)
    \/ \E s \in DOMAIN servers : BindSucceeds(s)
    \/ \E s \in DOMAIN servers : BindFails(s)
    \/ \E s \in DOMAIN servers, key \in Keys : Accept(s, key)
    \/ \E k \in DOMAIN sockets : SocketEnd(k)
    \/ \E k \in DOMAIN sockets : SocketCloseEvent(k)
    \/ \E now \in BOOLEAN : \E early \in EarlyChoices(_server) : Close(now, early)

Spec == Init /\ [][Next]_vars

\* the lifecycle of the listeners alone, without their connections, over
\* every setting of the options the lifecycle reads and both values of the
\* environment variable
InitOptions == Constructed(AllOptions, {"unset", "0"})

NextOptions ==
    \/ \E https \in SecurePorts, http \in PlainPorts : Listen(https, http)
    \/ \E s \in DOMAIN servers : BindSucceeds(s)
    \/ \E s \in DOMAIN servers : BindFails(s)
    \/ \E now \in BOOLEAN : \E early \in EarlyChoices(_server) : Close(now, early)

SpecOptions == InitOptions /\ [][NextOptions]_vars

\* =========================================================================
\* Properties
\* =========================================================================

\* ------------------------------------------------------- reading the log
Positions(type, call) ==
    {i \in DOMAIN events : events[i].type = type /\ events[i].call = call}

\* position of the start of listen call c / close call d in the log
ListenStart(c) == CHOOSE i \in Positions("beforeListen", c) : TRUE
CloseStart(d) == CHOOSE i \in Positions("close", d) : TRUE

\* position of the last close call started so far, 0 if none
LastClose ==
    IF closeCalls = <<>> THEN 0 ELSE CloseStart(Len(closeCalls))

\* position of the last close call started before log position p, 0 if none
LastCloseBefore(p) ==
    LET before == {i \in DOMAIN events : i < p /\ events[i].type = "close"}
    IN  IF before = {} THEN 0 ELSE CHOOSE i \in before : \A j \in before : j <= i

ServersOf(c) == {s \in DOMAIN servers : servers[s].call = c}

\* the events proper (the log also records bind attempts and close calls)
RECURSIVE Emitted(_)
Emitted(log) ==
    IF log = <<>> THEN <<>>
    ELSE IF Head(log).type \in {"beforeListen", "listen"}
         THEN <<Head(log)>> \o Emitted(Tail(log))
         ELSE Emitted(Tail(log))

\* the servers whose bind was attempted after log position p, in order
RECURSIVE BoundAfter(_, _)
BoundAfter(log, p) ==
    IF Len(log) <= p THEN <<>>
    ELSE BoundAfter(SubSeq(log, 1, Len(log) - 1), p)
         \o (IF log[Len(log)].type = "bind" THEN <<log[Len(log)].srv>> ELSE <<>>)

\* sanity of the model: shapes, and what the handle list can hold
TypeOK ==
    /\ _server \in Seq(DOMAIN servers)
    /\ \A i \in DOMAIN _server : servers[_server[i]].phase \in {"binding", "listening", "failed"}
    /\ \A i, j \in DOMAIN _server : i # j => _server[i] # _server[j]
    /\ DOMAIN connections = DOMAIN servers
    /\ \A s \in DOMAIN servers : Registered(s) \subseteq DOMAIN sockets
    /\ \A k \in DOMAIN sockets : sockets[k].state \in {"open", "closing", "closed"}
    /\ \A c \in DOMAIN listenCalls : Cardinality(Positions("beforeListen", c)) = 1
    /\ \A d \in DOMAIN closeCalls : Cardinality(Positions("close", d)) = 1

\* no listen call was started after close call d
NoListenSince(d) ==
    \A i \in DOMAIN events : i > CloseStart(d) => events[i].type # "beforeListen"

\* C1 (as stated): whenever a close call completes (resolves or rejects,
\* forced or not), the handle list is empty at that moment.
C1_EmptyAtCompletion ==
    [][\A d \in DOMAIN closeCalls' :
          ( /\ closeCalls'[d].status # "pending"
            /\ (d \in DOMAIN closeCalls => closeCalls[d].status = "pending") )
          => _server' = <<>>]_vars

\* C1 (amended): close empties the handle list when it is called.  From then
\* on, and so when the call completes, none of its handles is in the list,
\* and the list is empty unless a listen call was started after the close.
C1_DrainedByClose ==
    \A d \in DOMAIN closeCalls :
        /\ \A i \in DOMAIN _server : _server[i] \notin Range(closeCalls[d].handles)
        /\ NoListenSince(d) => _server = <<>>

\* a close over two handles has failed, and the list is empty
C1_Witness ==
    \E d \in DOMAIN closeCalls :
        /\ closeCalls[d].status = "rejected"
        /\ Len(closeCalls[d].handles) = 2
        /\ \E i, j \in DOMAIN closeCalls[d].handles :
              /\ servers[closeCalls[d].handles[i]].bind = "failed"
              /\ servers[closeCalls[d].handles[j]].bind = "ok"
        /\ _server = <<>>

ListenEvents(c) == Cardinality(Positions("listen", c))

\* C2: the 'listen' event fires exactly once per fully successful listen call
\* (every listener the call requested has bound, which is when the call
\* resolves), only after every such listener has bound, and never for a call
\* one of whose listeners failed to bind.
C2_ListenEvent ==
    \A c \in DOMAIN listenCalls :
        LET mine == ServersOf(c)
            allBound == mine # {} /\ \A s \in mine : servers[s].bind = "ok"
        IN  /\ ListenEvents(c) <= 1
            /\ ListenEvents(c) = 1 <=> allBound
            /\ ListenEvents(c) = 1 <=> listenCalls[c].status = "resolved"
            /\ (\E s \in mine : servers[s].bind = "failed")
                  => ListenEvents(c) = 0 /\ listenCalls[c].status = "rejected"

\* a call with two listeners has emitted 'listen', another call has failed
\* to bind and emitted none
C2_Witness ==
    \E c, f \in DOMAIN listenCalls :
        /\ Cardinality(ServersOf(c)) = 2
        /\ ListenEvents(c) = 1
        /\ \E s \in ServersOf(f) : servers[s].bind = "failed"
        /\ ListenEvents(f) = 0

\* C3: every listen call emits 'beforeListen' exactly once, and before each
\* of the bind attempts (main server or redirecting server) it makes.
C3_BeforeListenFirst ==
    \A c \in DOMAIN listenCalls :
        /\ Cardinality(Positions("beforeListen", c)) = 1
        /\ \A s \in ServersOf(c) :
              \E b \in DOMAIN events :
                  /\ events[b] = Ev("bind", c, s)
                  /\ \A e \in Positions("beforeListen", c) : e < b

\* a call that attempted two binds
C3_Witness ==
    \E c \in DOMAIN listenCalls :
        /\ Cardinality(Positions("bind", c)) = 2
        /\ Cardinality(Positions("beforeListen", c)) = 1

\* listen call c was started after the last close call
StartedAfterLastClose(c) == ListenStart(c) > LastClose

\* C4 (as stated): the handle list is non-empty only between a successful
\* listen and the start of close: whenever it is non-empty, a listen call
\* started since the last close has succeeded.
C4_OnlyAfterSuccess ==
    _server # <<>> =>
        \E c \in DOMAIN listenCalls :
            listenCalls[c].status = "resolved" /\ StartedAfterLastClose(c)

\* C4 (amended): a handle is registered when its bind is attempted.  The list
\* holds, in order, exactly the servers whose bind was attempted since the
\* start of the last close call: it is non-empty only between the start of a
\* listen that creates a listener and the start of the next close, whether or
\* not that listen has succeeded yet or at all.
C4_RegisteredAtBind ==
    _server = BoundAfter(events, LastClose)

\* the list holds a listener of a failed listen call, after an earlier close
C4_Witness ==
    /\ closeCalls # <<>>
    /\ \E c \in DOMAIN listenCalls :
          /\ listenCalls[c].status = "rejected"
          /\ \E i \in DOMAIN _server : _server[i] \in ServersOf(c)

\* listen call c started with an empty handle list, and no other listen or
\* close call was made before it resolved
FromIdle(c) ==
    LET p == ListenStart(c)
    IN  /\ BoundAfter(SubSeq(events, 1, p - 1), LastCloseBefore(p)) = <<>>
        /\ \A q \in Positions("listen", c) :
              \A i \in p..q : events[i].type # "close" /\ events[i].call = c

\* the handles the stated rule predicts, as (role, port) pairs
ExpectedHandles(ssl, https, http) ==
    CASE ssl = "manual" /\ http # NULL -> {<<"main", https>>, <<"fallback", http>>}
      [] ssl = "manual" /\ http = NULL -> {<<"main", https>>}
      [] ssl = "none" /\ http # NULL -> {<<"main", http>>}
      [] ssl = "letsEncrypt" -> {<<"main", https>>}
      [] OTHER -> {}

\* C5: a listen(securePort, plainPort) that started from Idle and succeeded
\* returns two handles in manual mode with a plaintext port (main server on
\* securePort, redirecting server on plainPort), one in manual mode without
\* one, one bound to plainPort and no redirecting server in none mode, and
\* one and no redirecting server in letsEncrypt mode.
C5_HandleCount ==
    \A c \in DOMAIN listenCalls :
        (listenCalls[c].status = "resolved" /\ FromIdle(c)) =>
            LET lc == listenCalls[c]
                want == ExpectedHandles(_options.ssl, lc.https, lc.http)
            IN  /\ Len(lc.result) = Cardinality(want)
                /\ {<<servers[s].kind, servers[s].port>> : s \in Range(lc.result)} = want
                /\ \A s \in Range(lc.result) : servers[s].bind = "ok"

\* a listen made after a close has returned two handles
C5_Witness ==
    \E c \in DOMAIN listenCalls :
        /\ listenCalls[c].status = "resolved"
        /\ FromIdle(c)
        /\ LastCloseBefore(ListenStart(c)) > 0
        /\ Len(listenCalls[c].result) = 2

\* C6: in none mode, listen with a null plaintext port fails with the
\* configuration error; it attempts no bind, adds no handle to the list and
\* never emits 'listen'.
C6_NoneWithoutPort ==
    \A c \in DOMAIN listenCalls :
        (_options.ssl = "none" /\ listenCalls[c].http = NULL) =>
            /\ listenCalls[c].status = "rejected"
            /\ listenCalls[c].error = "config"
            /\ ServersOf(c) = {}
            /\ Positions("bind", c) = {}
            /\ ListenEvents(c) = 0
            /\ \A i \in DOMAIN _server : servers[_server[i]].call # c

\* such a call has been made on a manager whose list is empty
C6_Witness ==
    \E c \in DOMAIN listenCalls :
        /\ _options.ssl = "none"
        /\ listenCalls[c].http = NULL
        /\ listenCalls[c].status = "rejected"
        /\ _server = <<>>

\* C7: close(forced = true) destroys, in the call itself, every connection
\* that is open on one of the manager's active listeners at the time of the
\* call: each of them has received destroy() once the call has run.
C7_ForcedDestroysAll ==
    \A d \in DOMAIN closeCalls :
        closeCalls[d].now =>
            \A k \in closeCalls[d].openAtCall :
                sockets[k].destroyCalls >= 1 /\ sockets[k].state # "open"

\* C8: close(forced = false) destroys no connection, and it does not complete
\* (resolve or reject) while a connection that was open on one of its
\* listeners at the time of the call is still open.  (Stated for the calls
\* made while no listener of the list was still binding.)
C8_GracefulWaits ==
    \A d \in DOMAIN closeCalls :
        (~closeCalls[d].now /\ "binding" \notin Range(closeCalls[d].phases)) =>
            /\ \A k \in closeCalls[d].openAtCall : sockets[k].destroyCalls = 0
            /\ closeCalls[d].status # "pending" =>
                  \A k \in closeCalls[d].openAtCall : sockets[k].state # "open"

\* the emitted events, the servers and the sockets are what they were
NoAction ==
    /\ Emitted(events') = Emitted(events)
    /\ servers' = servers
    /\ sockets' = sockets
    /\ connections' = connections

\* C9: close, forced or not, on a manager whose handle list is empty (it never
\* listened, or it was closed already) returns the empty list and does nothing:
\* it closes no listener, destroys no connection, emits no event and leaves
\* the list empty.
C9_IdleCloseNoOp ==
    [][(Len(closeCalls') > Len(closeCalls) /\ _server = <<>>) =>
          /\ closeCalls'[Len(closeCalls')].status = "resolved"
          /\ closeCalls'[Len(closeCalls')].result = <<>>
          /\ _server' = <<>>
          /\ NoAction]_vars

\* a forced close was made on a manager that an earlier close had emptied
\* while a connection was still open
C9_Witness ==
    \E d \in DOMAIN closeCalls :
        /\ d > 1
        /\ closeCalls[d].now
        /\ closeCalls[d].handles = <<>>
        /\ closeCalls[d].status = "resolved"
        /\ closeCalls[d - 1].handles # <<>>
        /\ \E k \in DOMAIN sockets : sockets[k].state = "open"

\* C10: a close call that succeeds returns exactly the handles that were in
\* the list when it was called, each once and in the same order.
C10_ReturnsHandles ==
    \A d \in DOMAIN closeCalls :
        closeCalls[d].status = "resolved" =>
            /\ closeCalls[d].result = closeCalls[d].handles
            /\ \A i, j \in DOMAIN closeCalls[d].result :
                  i # j => closeCalls[d].result[i] # closeCalls[d].result[j]

\* a close over two handles, called while a connection was open on them, has resolved
C10_Witness ==
    \E d \in DOMAIN closeCalls :
        /\ closeCalls[d].status = "resolved"
        /\ Len(closeCalls[d].result) = 2
        /\ closeCalls[d].openAtCall # {}

\* C11: best-effort shutdown.  When close is called over two handles (none of
\* them still binding) and the close of one of them fails, the other handle
\* is closed all the same, and the call does not complete before every
\* handle has reported its outcome.
C11_BestEffort ==
    \A d \in DOMAIN closeCalls :
        ( /\ Len(closeCalls[d].handles) = 2
          /\ "binding" \notin Range(closeCalls[d].phases)
          /\ "rejected" \in Range(closeCalls[d].promises) ) =>
            /\ \A i \in DOMAIN closeCalls[d].handles :
                  servers[closeCalls[d].handles[i]].phase # "listening"
            /\ closeCalls[d].status # "pending" =>
                  "pending" \notin Range(closeCalls[d].promises)

\* C12: the constructor throws if and only if at least one of name, domains,
\* cookieSecret, webmasterMail is absent from its argument; whatever optional
\* fields are present, construction with the four required fields succeeds,
\* fills each absent optional field with its default (ssl letsEncrypt,
\* maxPayloadSize 102400, isDevelopment false, agreeGreenlockTos false,
\* staticFiles null) and keeps each optional field that is present.
C12_Construction ==
    (thrown # "" \/ _options # Unassigned) =>
        /\ thrown # "" <=> \E f \in RequiredFields : options[f] = <<>>
        /\ thrown # "" => _options = Unassigned
        /\ thrown = "" =>
              /\ _options.ssl = IF options.ssl = <<>> THEN "letsEncrypt"
                                ELSE options.ssl[1].mode
              /\ _options.maxPayloadSize =
                    IF options.maxPayloadSize = <<>> THEN 102400
                    ELSE options.maxPayloadSize[1]
              /\ _options.isDevelopment =
                    IF options.isDevelopment = <<>> THEN FALSE
                    ELSE options.isDevelopment[1]
              /\ _options.agreeGreenlockTos =
                    IF options.agreeGreenlockTos = <<>> THEN FALSE
                    ELSE options.agreeGreenlockTos[1]
              /\ _options.staticFiles =
                    IF options.staticFiles = <<>> THEN NULL
                    ELSE options.staticFiles[1]

\* constructed from the four required fields alone: every default is filled
C12_Witness ==
    /\ options = RequiredOnly
    /\ thrown = ""
    /\ _options # Unassigned
    /\ _options.ssl = "letsEncrypt"
    /\ _options.maxPayloadSize = 102400

\* a field the chosen ssl mode needs is missing from the options: key or
\* certificate bytes in manual mode, TOS acceptance in letsEncrypt mode
MissingModeField(o) ==
    \/ o.ssl = "manual" /\ (o.key = "" \/ o.cert = "")
    \/ o.ssl = "letsEncrypt" /\ ~o.agreeGreenlockTos

\* C13: when a field required by the chosen ssl mode is missing, every listen
\* call fails at once with a configuration error and creates no server, so
\* that no bind is attempted.
C13_FailFast ==
    MissingModeField(_options) =>
        \A c \in DOMAIN listenCalls :
            /\ listenCalls[c].status = "rejected"
            /\ listenCalls[c].error = "config"
            /\ ServersOf(c) = {}

\* C14: every request that arrives on an open connection of a redirecting
\* server, whatever its method, and also while a graceful close of that
\* server is pending, is answered with a redirect to
\* https://<host>:<port><url>, the port being the https argument of the
\* listen call that created the server.
C14_RedirectsEveryRequest ==
    \A k \in DOMAIN sockets :
        LET s == sockets[k].server
        IN  (sockets[k].state = "open" /\ servers[s].kind = "fallback") =>
                \A method \in Methods, host \in Hosts, url \in Urls :
                    /\ Respond(method, host, url).status = 302
                    /\ Respond(method, host, url).location =
                          <<"https://", host, ":",
                            listenCalls[servers[s].call].https, url>>

\* C15: connection registry invariant.  For every listener, an identifier is
\* in its registry exactly for the connections it accepted that are open:
\* every open connection is registered under its identifier, and every entry
\* stands for a connection of that listener whose close has not been
\* observed yet.
C15_RegistryExact ==
    /\ \A k \in DOMAIN sockets :
          sockets[k].state = "open" =>
              connections[sockets[k].server][sockets[k].key] = k
    /\ \A s \in DOMAIN servers : \A key \in Keys :
          connections[s][key] # 0 =>
              /\ sockets[connections[s][key]].server = s
              /\ sockets[connections[s][key]].key = key
              /\ sockets[connections[s][key]].state # "closed"

\* C16: if one of the binds of a listen call fails, the call is rejected with
\* the bind error, and a listener of the same call that did bind keeps
\* listening: it is stopped only by a close call that holds it, never by
\* listen.
C16_BindFailureRejects ==
    \A c \in DOMAIN listenCalls :
        (\E s \in ServersOf(c) : servers[s].bind = "failed") =>
            /\ listenCalls[c].status = "rejected"
            /\ listenCalls[c].error = "bind"
            /\ \A o \in ServersOf(c) :
                  servers[o].bind = "ok" =>
                      \/ servers[o].phase = "listening"
                      \/ \E d \in DOMAIN closeCalls : o \in Range(closeCalls[d].handles)

\* a call whose main server failed to bind after its redirecting server had
\* bound: rejected, the redirecting server listening and still in the list
C16_Witness ==
    \E c \in DOMAIN listenCalls :
        /\ listenCalls[c].status = "rejected"
        /\ listenCalls[c].error = "bind"
        /\ \E s, o \in ServersOf(c) :
              /\ servers[s].kind = "main" /\ servers[s].bind = "failed"
              /\ servers[o].kind = "fallback" /\ servers[o].phase = "listening"
              /\ o \in Range(_server)
        /\ closeCalls = <<>>

\* C17 (as stated): once the forced close of a listener that was listening
\* has completed (its close callback has fired), no connection identifier
\* remains in the registry of that listener.
C17_EmptyAtForcedClose ==
    \A d \in DOMAIN closeCalls : \A i \in DOMAIN closeCalls[d].handles :
        ( /\ closeCalls[d].now
          /\ closeCalls[d].phases[i] = "listening"
          /\ closeCalls[d].promises[i] = "resolved" ) =>
            Registered(closeCalls[d].handles[i]) = {}

\* C17 (amended): every entry of a listener's registry stands for a
\* connection of that listener whose 'close' event has not fired yet; so the
\* registry of a listener is empty once the 'close' events of all its
\* connections have fired, which for the connections destroyed by a forced
\* close is after that close has completed.
C17_EmptyOnceObserved ==
    \A s \in DOMAIN servers :
        /\ Registered(s) \subseteq
              {k \in DOMAIN sockets : sockets[k].server = s /\ sockets[k].state # "closed"}
        /\ (\A k \in DOMAIN sockets : sockets[k].server = s => sockets[k].state = "closed")
              => Registered(s) = {}

\* a forced close destroyed two connections of a listener and completed, their
\* 'close' events have fired since, and the registry is empty
C17_Witness ==
    \E d \in DOMAIN closeCalls :
        /\ closeCalls[d].now
        /\ closeCalls[d].status = "resolved"
        /\ Cardinality(closeCalls[d].openAtCall) = 2
        /\ \A k \in closeCalls[d].openAtCall :
              /\ sockets[k].destroyCalls = 1
              /\ sockets[k].state = "closed"
              /\ Registered(sockets[k].server) = {}

\* C18 (as stated): a connection that is already mid-close when the forced
\* sweep runs (the peer has ended it, its close observer has not run yet)
\* does not receive destroy() from the sweep.
C18_NoDestroyMidClose ==
    \A k \in DOMAIN sockets : sockets[k].ended => sockets[k].destroyCalls = 0

\* C18 (amended): the sweep calls destroy() on every registered connection,
\* a mid-close one included, on which the call changes nothing; no connection
\* receives destroy() from the manager more than once, and a connection that
\* has received it is no longer open.
C18_DestroyedOnce ==
    \A k \in DOMAIN sockets :
        /\ sockets[k].destroyCalls <= 1
        /\ sockets[k].destroyCalls = 1 => sockets[k].state # "open"

\* a connection ended by the peer received destroy() from a forced sweep
\* while mid-close, and its close observer has run since
C18_Witness ==
    \E k \in DOMAIN sockets :
        /\ sockets[k].ended
        /\ sockets[k].destroyCalls = 1
        /\ sockets[k].state = "closed"
        /\ Registered(sockets[k].server) = {}

\* C19: in every reachable state the handle list holds at most two handles,
\* also when listen is called again without a close in between.
C19_AtMostTwoHandles == Len(_server) <= 2

\* C20: no listener leak.  Every server the manager has created that is
\* binding or listening (and so not closed or being closed) is in the handle
\* list, so that the next close call reaches it.
C20_NoListenerLeak ==
    \A s \in DOMAIN servers :
        servers[s].phase \in {"binding", "listening"} => s \in Range(_server)

\* C21: when the 'listen' event of a listen call is emitted and the call
\* returns, the handle list it returns (this._server at that moment) contains
\* every server that call created, also when a close call came in between.
C21_ListenReturnsItsServers ==
    \A c \in DOMAIN listenCalls :
        listenCalls[c].status = "resolved" =>
            ServersOf(c) \subseteq Range(listenCalls[c].result)

\* C22: the close observer of a connection removes that connection's own
\* registry entry only.  When connection a has closed, a connection b that
\* the same listener accepted later under the same identifier and that is
\* still open is still registered under it, and so a forced close that finds
\* b open destroys it.
C22_ObserverRemovesOwnEntry ==
    \A a, b \in DOMAIN sockets :
        ( /\ a < b
          /\ sockets[a].server = sockets[b].server
          /\ sockets[a].key = sockets[b].key
          /\ sockets[a].state = "closed" ) =>
            /\ sockets[b].state = "open" =>
                  connections[sockets[b].server][sockets[b].key] = b
            /\ \A d \in DOMAIN closeCalls :
                  (closeCalls[d].now /\ b \in closeCalls[d].openAtCall) =>
                      sockets[b].destroyCalls >= 1

\* C23: a listen call sets the process-wide flag NODE_TLS_REJECT_UNAUTHORIZED
\* to "0" exactly when the options ask for it (mode letsEncrypt with
\* isDevelopment, or mode manual with allowUnsigned or isDevelopment); a
\* listen call under any other options, every close call and every other
\* step leave the flag as it is, so a flag that is "0" stays "0".
C23_TlsFlagFrame ==
    [][LET asks == \/ _options.ssl = "letsEncrypt" /\ _options.isDevelopment
                   \/ _options.ssl = "manual" /\
                         (_options.allowUnsigned \/ _options.isDevelopment)
           listens == Len(listenCalls') = Len(listenCalls) + 1
       IN  /\ (listens /\ asks) => tlsReject' = "0"
           /\ ~(listens /\ asks) => tlsReject' = tlsReject
           /\ tlsReject = "0" => tlsReject' = "0"]_vars

\* manual mode with allowUnsigned alone: a listen call found the flag unset
\* and set it, and a close call has left it set
C23_Witness ==
    /\ _options.ssl = "manual"
    /\ _options.allowUnsigned
    /\ ~_options.isDevelopment
    /\ \E c \in DOMAIN listenCalls : listenCalls[c].tlsBefore = "unset"
    /\ closeCalls # <<>>
    /\ tlsReject = "0"

====
